---- MODULE Spec2Model ----
(***************************************************************************)
(* Model of src/parse_match_players.py: the MatchPlayerParser pipeline     *)
(* (parse_csv, check_for_new_matches, update_most_recent_matches,          *)
(* get_most_recent_match, main) together with the pandas CSV round trip    *)
(* of the persisted snapshot most_recent_matches.csv.                      *)
(*                                                                         *)
(* Python values are records [t, n, s]: t is the Python type, n the        *)
(* number (tenths for a float), s the text of a str.  A CSV cell is its    *)
(* text.  pd.read_csv infers one dtype per column, DataFrame.to_csv        *)
(* writes the text of each value.                                          *)
(***************************************************************************)
EXTENDS Integers, Sequences, FiniteSets, TLC

VARIABLES
  file,                  \* most_recent_matches.csv on disk
  batch,                 \* club_matches.csv on disk: the rows of this run
  matches,               \* self.matches
  new_matches_detected,  \* self.new_matches_detected
  most_recent_match,     \* self.most_recent_match / main's return value
  has_new_matches,       \* main's local has_new_matches
  pc,                    \* position of the caller in the run
  runs,                  \* number of parser instances constructed so far
  calls,                 \* update_most_recent_matches calls on this instance
  filePre,               \* history: file when the instance was constructed
  fileOnce               \* history: file after the first update call

vars == <<file, batch, matches, new_matches_detected, most_recent_match,
          has_new_matches, pc, runs, calls, filePre, fileOnce>>

-----------------------------------------------------------------------------
(* Bounds *)

MaxRows == 2

MaxRuns == 2

MaxInt == 7

-----------------------------------------------------------------------------
(* Python values *)

None == [t |-> "none", n |-> 0, s |-> ""]

NaN == [t |-> "nan", n |-> 0, s |-> ""]

PyInt(n) == [t |-> "int", n |-> n, s |-> ""]

PyFloat(n10) == [t |-> "float", n |-> n10, s |-> ""]

PyStr(s) == [t |-> "str", n |-> 0, s |-> s]

\* text of a non-negative integer literal / of a float with one decimal
IntTexts == {ToString(n) : n \in 0..MaxInt}

IsIntText(s) == s \in IntTexts

IntOfText(s) == CHOOSE n \in 0..MaxInt : ToString(n) = s

FloatText(n10) == ToString(n10 \div 10) \o "." \o ToString(n10 % 10)

FloatTexts == {FloatText(n) : n \in 0..(10 * MaxInt + 9)}

IsFloatText(s) == s \in FloatTexts

FloatOfText(s) == CHOOSE n \in 0..(10 * MaxInt + 9) : FloatText(n) = s

\* str(v)
PyStrOf(v) ==
  CASE v.t = "int" -> ToString(v.n)
    [] v.t = "float" -> FloatText(v.n)
    [] v.t = "str" -> v.s
    [] v.t = "none" -> "None"
    [] OTHER -> "nan"

\* int(v) raises TypeError on None, ValueError on a str that is no integer
IntRaises(v) ==
  \/ v.t = "none"
  \/ v.t = "nan"
  \/ v.t = "str" /\ ~IsIntText(v.s)

PyIntOf(v) ==
  CASE v.t = "int" -> PyInt(v.n)
    [] v.t = "float" -> PyInt(v.n \div 10)
    [] OTHER -> PyInt(IntOfText(v.s))

\* float(v)
FloatRaises(v) ==
  \/ v.t = "none"
  \/ v.t = "str" /\ ~IsIntText(v.s) /\ ~IsFloatText(v.s)

PyFloatOf(v) ==
  CASE v.t = "int" -> PyFloat(10 * v.n)
    [] v.t = "float" -> PyFloat(v.n)
    [] v.t = "nan" -> NaN
    [] v.t = "str" /\ IsIntText(v.s) -> PyFloat(10 * IntOfText(v.s))
    [] OTHER -> PyFloat(FloatOfText(v.s))

\* a == b on two values (an int equals the float of the same number)
PyEq(a, b) ==
  \/ a = b
  \/ a.t = "int" /\ b.t = "float" /\ 10 * a.n = b.n
  \/ a.t = "float" /\ b.t = "int" /\ a.n = 10 * b.n

\* dict.get(key, default)
Get(d, key, default) == IF key \in DOMAIN d THEN d[key] ELSE default

-----------------------------------------------------------------------------
(* CSV round trip *)

\* DataFrame.to_csv: the text of one value
ToCsvCell(v) ==
  CASE v.t = "int" -> ToString(v.n)
    [] v.t = "float" -> FloatText(v.n)
    [] v.t = "str" -> v.s
    [] OTHER -> ""

\* pd.read_csv: dtype inference over one column of cells
ReadColumn(cells) ==
  LET full == \A i \in DOMAIN cells : cells[i] # ""
      allInt == \A i \in DOMAIN cells : cells[i] = "" \/ IsIntText(cells[i])
      allNum == \A i \in DOMAIN cells :
                  cells[i] = "" \/ IsIntText(cells[i]) \/ IsFloatText(cells[i])
  IN [i \in DOMAIN cells |->
        IF cells[i] = "" THEN NaN
        ELSE IF allInt /\ full THEN PyInt(IntOfText(cells[i]))
        ELSE IF allNum THEN PyFloatOf(PyStr(cells[i]))
        ELSE PyStr(cells[i])]

\* pd.read_csv over a table of text rows: every column is inferred on its own
ReadCsv(rows) ==
  IF rows = <<>> THEN <<>>
  ELSE LET cols == DOMAIN rows[1]
           typed == [c \in cols |-> ReadColumn([i \in DOMAIN rows |-> rows[i][c]])]
       IN [i \in DOMAIN rows |-> [c \in cols |-> typed[c][i]]]

\* DataFrame.to_csv over typed rows
ToCsv(rows) == [i \in DOMAIN rows |-> [c \in DOMAIN rows[i] |-> ToCsvCell(rows[i][c])]]

-----------------------------------------------------------------------------
(* Data classes *)

\* the keys read from a player's mapping, by the type the field is coerced to
StrKeys == {"playername", "pos", "archetypeid"}

IntKeys == {"goals", "assists", "shots", "passesmade", "passattempts",
            "tacklesmade", "tackleattempts", "saves", "secondsPlayed", "SCORE",
            "wins", "losses", "redcards", "userResult"}

StatKeys == StrKeys \cup {"rating"} \cup IntKeys

\* PlayerStats(...) as _parse_match_row builds it
PlayerStats(club_id, player_id, st) ==
  [player_id |-> PyStr(player_id),
   player_name |-> Get(st, "playername", PyStr("Unknown")),
   club_id |-> PyStr(club_id),
   position |-> Get(st, "pos", PyStr("Unknown")),
   archetype_id |-> Get(st, "archetypeid", PyStr("0")),
   rating |-> PyFloatOf(Get(st, "rating", PyInt(0))),
   goals |-> PyIntOf(Get(st, "goals", PyInt(0))),
   assists |-> PyIntOf(Get(st, "assists", PyInt(0))),
   shots |-> PyIntOf(Get(st, "shots", PyInt(0))),
   passes_made |-> PyIntOf(Get(st, "passesmade", PyInt(0))),
   pass_attempts |-> PyIntOf(Get(st, "passattempts", PyInt(0))),
   tackles_made |-> PyIntOf(Get(st, "tacklesmade", PyInt(0))),
   tackle_attempts |-> PyIntOf(Get(st, "tackleattempts", PyInt(0))),
   saves |-> PyIntOf(Get(st, "saves", PyInt(0))),
   seconds_played |-> PyIntOf(Get(st, "secondsPlayed", PyInt(0))),
   score |-> PyIntOf(Get(st, "SCORE", PyInt(0))),
   wins |-> PyIntOf(Get(st, "wins", PyInt(0))),
   losses |-> PyIntOf(Get(st, "losses", PyInt(0))),
   red_cards |-> PyIntOf(Get(st, "redcards", PyInt(0))),
   user_result |-> PyIntOf(Get(st, "userResult", PyInt(0)))]

\* the constructor call raises when float(...) or one of the int(...) raises
PlayerStatsRaises(st) ==
  \/ FloatRaises(Get(st, "rating", PyInt(0)))
  \/ \E k \in IntKeys : IntRaises(Get(st, k, PyInt(0)))

\* MatchData.get_all_players: the clubs' lists concatenated in club order
RECURSIVE GetAllPlayers(_)
GetAllPlayers(players_by_club) ==
  IF players_by_club = <<>> THEN <<>>
  ELSE Head(players_by_club).players \o GetAllPlayers(Tail(players_by_club))

\* MostRecentMatch; some = FALSE stands for None
NoMostRecent ==
  [some |-> FALSE, match_id |-> "", timestamp |-> "", time_ago |-> "",
   players |-> <<>>, is_new |-> FALSE]

-----------------------------------------------------------------------------
(* Row normalisation *)

\* The players cell.  kind "syntax": ast.literal_eval raises; kind "list": a
\* literal that is no mapping (.items() raises); kind "dict": clubs is the
\* mapping in insertion order, a club with isMap = FALSE maps to a literal
\* that is no mapping.

\* one club bucket of _parse_match_row's loop
ParseClub(c) ==
  [club_id |-> c.club_id,
   players |-> [j \in DOMAIN c.players |->
                  PlayerStats(c.club_id, c.players[j].player_id, c.players[j].stats)]]

ClubRaises(c) ==
  \/ ~c.isMap
  \/ \E j \in DOMAIN c.players : PlayerStatsRaises(c.players[j].stats)

\* _parse_match_row raises
ParseMatchRowRaises(row) ==
  \/ row.players.kind # "dict"
  \/ \E i \in DOMAIN row.players.clubs : ClubRaises(row.players.clubs[i])

\* _parse_match_row's MatchData; row holds the values read_csv produced
ParseMatchRow(row) ==
  [match_id |-> PyStrOf(row.matchId),
   timestamp |-> PyStrOf(row.timestamp),
   time_ago |-> PyStrOf(row.timeAgo),
   players_by_club |-> [i \in DOMAIN row.players.clubs |->
                          ParseClub(row.players.clubs[i])]]

\* pd.read_csv(self.csv_filepath): the scalar columns are inferred, the
\* players column stays the text it is
ReadBatch(rows) ==
  LET m == ReadColumn([i \in DOMAIN rows |-> rows[i].matchId])
      t == ReadColumn([i \in DOMAIN rows |-> rows[i].timestamp])
      a == ReadColumn([i \in DOMAIN rows |-> rows[i].timeAgo])
  IN [i \in DOMAIN rows |->
        [matchId |-> m[i], timestamp |-> t[i], timeAgo |-> a[i],
         players |-> rows[i].players]]

\* parse_csv's loop stopped at the first failing row
RECURSIVE ParseRowsAbort(_)
ParseRowsAbort(df) ==
  IF df = <<>> \/ ParseMatchRowRaises(Head(df)) THEN <<>>
  ELSE <<ParseMatchRow(Head(df))>> \o ParseRowsAbort(Tail(df))

\* parse_csv's loop: a row that raises is reported and skipped
RECURSIVE ParseRows(_)
ParseRows(df) ==
  IF df = <<>> THEN <<>>
  ELSE IF ParseMatchRowRaises(Head(df)) THEN ParseRows(Tail(df))
  ELSE <<ParseMatchRow(Head(df))>> \o ParseRows(Tail(df))

-----------------------------------------------------------------------------
(* Snapshot reconciliation *)

\* the snapshot file: absent, or written (header = FALSE when it was written
\* from a DataFrame without columns, which read_csv cannot parse)
Absent == [exists |-> FALSE, header |-> FALSE, rows |-> <<>>]

\* load_most_recent_matches: None when the file is absent; pd.read_csv's
\* EmptyDataError is not caught
LoadRaises(f) == f.exists /\ ~f.header

Load(f) == ReadCsv(f.rows)

\* one dict of current_matches_data
SnapshotRow(match, player) ==
  [matchId |-> PyStr(match.match_id),
   timestamp |-> PyStr(match.timestamp),
   timeAgo |-> PyStr(match.time_ago),
   club_id |-> player.club_id,
   player_id |-> player.player_id,
   player_name |-> player.player_name,
   position |-> player.position,
   rating |-> player.rating,
   goals |-> player.goals,
   assists |-> player.assists,
   shots |-> player.shots,
   passes_made |-> player.passes_made,
   pass_attempts |-> player.pass_attempts,
   tackles_made |-> player.tackles_made,
   tackle_attempts |-> player.tackle_attempts,
   saves |-> player.saves,
   seconds_played |-> player.seconds_played,
   score |-> player.score]

MatchRows(match) ==
  LET ps == GetAllPlayers(match.players_by_club)
  IN [j \in DOMAIN ps |-> SnapshotRow(match, ps[j])]

\* current_matches_data: matches, then clubs, then players
RECURSIVE CurrentMatchesData(_)
CurrentMatchesData(ms) ==
  IF ms = <<>> THEN <<>>
  ELSE MatchRows(Head(ms)) \o CurrentMatchesData(Tail(ms))

\* the subset columns of drop_duplicates
SameKey(a, b) == PyEq(a.matchId, b.matchId) /\ PyEq(a.player_id, b.player_id)

\* DataFrame.drop_duplicates(subset=['matchId', 'player_id'], keep='first')
RECURSIVE DropDuplicatesKeepFirst(_)
DropDuplicatesKeepFirst(rows) ==
  IF rows = <<>> THEN <<>>
  ELSE LET n == Len(rows)
           front == SubSeq(rows, 1, n - 1)
       IN IF \E j \in DOMAIN front : SameKey(rows[n], front[j])
          THEN DropDuplicatesKeepFirst(front)
          ELSE DropDuplicatesKeepFirst(front) \o <<rows[n]>>

\* DataFrame.drop_duplicates(subset=['matchId', 'player_id'], keep='last')
RECURSIVE DropDuplicates(_)
DropDuplicates(rows) ==
  IF rows = <<>> THEN <<>>
  ELSE IF \E j \in DOMAIN Tail(rows) : SameKey(Head(rows), Tail(rows)[j])
       THEN DropDuplicates(Tail(rows))
       ELSE <<Head(rows)>> \o DropDuplicates(Tail(rows))

\* the merge with keep='first'
UpdatedDfKeepFirst(most_recent_df, current) ==
  DropDuplicatesKeepFirst(most_recent_df \o current)

\* pd.concat([most_recent_df, current_df]).drop_duplicates(..., keep='last')
UpdatedDf(most_recent_df, current) == DropDuplicates(most_recent_df \o current)

\* the file update_most_recent_matches leaves (the caller checks LoadRaises)
UpdatedFile(f, ms) ==
  LET current == CurrentMatchesData(ms)
  IN IF f.exists
     THEN [exists |-> TRUE, header |-> TRUE,
           rows |-> ToCsv(UpdatedDf(Load(f), current))]
     ELSE [exists |-> TRUE, header |-> current # <<>>, rows |-> ToCsv(current)]

\* set(most_recent_df['matchId'].astype(str))
ExistingMatchIds(f) == {PyStrOf(Load(f)[i].matchId) : i \in DOMAIN f.rows}

CurrentMatchIds(ms) == {ms[i].match_id : i \in DOMAIN ms}

\* the comparison without .astype(str): the ids as read_csv typed them
NewMatchesFoundNoAstype(f, ms) ==
  IF ms = <<>> THEN FALSE
  ELSE IF ~f.exists THEN TRUE
  ELSE {PyStr(id) : id \in CurrentMatchIds(ms)}
         \ {Load(f)[i].matchId : i \in DOMAIN f.rows} # {}

\* what check_for_new_matches returns (the caller checks LoadRaises)
NewMatchesFound(f, ms) ==
  IF ms = <<>> THEN FALSE
  ELSE IF ~f.exists THEN TRUE
  ELSE CurrentMatchIds(ms) \ ExistingMatchIds(f) # {}

\* get_most_recent_match taking the last match of the list
MostRecentOfLast(ms, is_new) ==
  IF ms = <<>> THEN NoMostRecent
  ELSE [some |-> TRUE, match_id |-> ms[Len(ms)].match_id,
        timestamp |-> ms[Len(ms)].timestamp, time_ago |-> ms[Len(ms)].time_ago,
        players |-> GetAllPlayers(ms[Len(ms)].players_by_club), is_new |-> is_new]

\* get_most_recent_match's result
MostRecentOf(ms, is_new) ==
  IF ms = <<>> THEN NoMostRecent
  ELSE [some |-> TRUE, match_id |-> ms[1].match_id,
        timestamp |-> ms[1].timestamp, time_ago |-> ms[1].time_ago,
        players |-> GetAllPlayers(ms[1].players_by_club), is_new |-> is_new]

-----------------------------------------------------------------------------
(* Inputs *)

SyntaxCell == [kind |-> "syntax", clubs |-> <<>>]

ListCell == [kind |-> "list", clubs |-> <<>>]

DictCell(clubs) == [kind |-> "dict", clubs |-> clubs]

ClubEntry(club_id, players) == [club_id |-> club_id, isMap |-> TRUE, players |-> players]

BadClubEntry(club_id) == [club_id |-> club_id, isMap |-> FALSE, players |-> <<>>]

PlayerEntry(player_id, stats) == [player_id |-> player_id, stats |-> stats]

NoStats == [k \in {} |-> None]

OneStat(key, v) == [k \in {key} |-> v]

InputRow(id, cell) ==
  [matchId |-> id, timestamp |-> "T" \o id, timeAgo |-> "2h", players |-> cell]

\* sequences over S of length at most n
RECURSIVE SeqsUpTo(_, _)
SeqsUpTo(S, n) ==
  IF n = 0 THEN {<<>>}
  ELSE LET shorter == SeqsUpTo(S, n - 1)
       IN shorter \cup {Append(q, x) : q \in shorter, x \in S}

\* the rows a run is drawn from: match "1" (an id read_csv types as an
\* integer) with one player and two scores, match "m3" (an id it keeps as
\* text) with two clubs, match "2" without clubs, and a row whose players
\* cell does not parse
OnePlayer(sc) ==
  DictCell(<<ClubEntry("c1", <<PlayerEntry("7", OneStat("SCORE", PyInt(sc)))>>)>>)

TwoClubs ==
  DictCell(<<ClubEntry("c1", <<PlayerEntry("p9", OneStat("SCORE", PyInt(3)))>>),
             ClubEntry("c2", <<PlayerEntry("p8", NoStats)>>)>>)

RunRows ==
  {InputRow("1", OnePlayer(3)), InputRow("1", OnePlayer(5)),
   InputRow("m3", TwoClubs), InputRow("2", DictCell(<<>>)),
   InputRow("2", SyntaxCell)}

RunBatches == SeqsUpTo(RunRows, MaxRows)

-----------------------------------------------------------------------------
(* Operations *)

Init ==
  /\ file = Absent
  /\ batch = <<>>
  /\ matches = <<>>
  /\ new_matches_detected = FALSE
  /\ most_recent_match = NoMostRecent
  /\ has_new_matches = FALSE
  /\ pc = "idle"
  /\ runs = 0
  /\ calls = 0
  /\ filePre = Absent
  /\ fileOnce = Absent

\* MatchPlayerParser(...) on the rows b of club_matches.csv
Construct(b) ==
  /\ pc \in {"idle", "done", "raised"}
  /\ runs < MaxRuns
  /\ batch' = b
  /\ matches' = <<>>
  /\ new_matches_detected' = FALSE
  /\ most_recent_match' = NoMostRecent
  /\ has_new_matches' = FALSE
  /\ pc' = "new"
  /\ runs' = runs + 1
  /\ calls' = 0
  /\ filePre' = file
  /\ fileOnce' = file
  /\ UNCHANGED file

\* parse_csv with a loop that ends at the first row that raises
ParseCsvAbort ==
  /\ pc = "new"
  /\ matches' = matches \o ParseRowsAbort(ReadBatch(batch))
  /\ pc' = "parsed"
  /\ UNCHANGED <<file, batch, new_matches_detected, most_recent_match,
                 has_new_matches, runs, calls, filePre, fileOnce>>

\* parse_csv
ParseCsv ==
  /\ pc = "new"
  /\ matches' = matches \o ParseRows(ReadBatch(batch))
  /\ pc' = "parsed"
  /\ UNCHANGED <<file, batch, new_matches_detected, most_recent_match,
                 has_new_matches, runs, calls, filePre, fileOnce>>

\* has_new_matches = self.check_for_new_matches()
CheckForNewMatches ==
  /\ pc = "parsed"
  /\ IF matches # <<>> /\ LoadRaises(file)
     THEN /\ pc' = "raised"
          /\ UNCHANGED <<new_matches_detected, has_new_matches>>
     ELSE /\ pc' = "checked"
          /\ has_new_matches' = NewMatchesFound(file, matches)
          /\ new_matches_detected' =
               IF matches = <<>> THEN new_matches_detected
               ELSE NewMatchesFound(file, matches)
  /\ UNCHANGED <<file, batch, matches, most_recent_match, runs, calls,
                 filePre, fileOnce>>

\* update_most_recent_matches
UpdateMostRecentMatches ==
  /\ calls' = calls + 1
  /\ IF matches = <<>>
     THEN UNCHANGED file /\ pc' = "updated"
     ELSE IF LoadRaises(file)
     THEN UNCHANGED file /\ pc' = "raised"
     ELSE file' = UpdatedFile(file, matches) /\ pc' = "updated"
  /\ fileOnce' = IF calls = 0 THEN file' ELSE fileOnce
  /\ UNCHANGED <<batch, matches, new_matches_detected, most_recent_match,
                 has_new_matches, runs, filePre>>

\* main calling update_most_recent_matches whatever detection returned
MainUpdateAlways ==
  /\ pc = "checked"
  /\ UpdateMostRecentMatches

\* main: if has_new_matches: self.update_most_recent_matches()
MainUpdate ==
  /\ pc = "checked"
  /\ has_new_matches
  /\ UpdateMostRecentMatches

\* most_recent = self.get_most_recent_match(), then the exports and return
GetMostRecentMatch ==
  /\ \/ pc = "updated"
     \/ pc = "checked" /\ ~has_new_matches
  /\ most_recent_match' = MostRecentOf(matches, new_matches_detected)
  /\ pc' = "done"
  /\ UNCHANGED <<file, batch, matches, new_matches_detected, has_new_matches,
                 runs, calls, filePre, fileOnce>>

\* a caller running main() once per parser instance
Run == \E b \in RunBatches : Construct(b)

Next ==
  \/ Run
  \/ ParseCsv
  \/ CheckForNewMatches
  \/ MainUpdate
  \/ GetMostRecentMatch

Spec == Init /\ [][Next]_vars

\* a caller using the parser's methods directly: parse_csv, then
\* update_most_recent_matches up to twice in succession
UpdateDirect ==
  /\ pc \in {"parsed", "updated"}
  /\ calls < 2
  /\ UpdateMostRecentMatches

NextMerge ==
  \/ Run
  \/ ParseCsv
  \/ UpdateDirect

SpecMerge == Init /\ [][NextMerge]_vars

-----------------------------------------------------------------------------
(* Properties of the snapshot *)

\* the persisted rows and the rows of this run, as the text a reader sees
Persisted == file.rows

Incoming == ToCsv(CurrentMatchesData(matches))

KeyOf(r) == <<r.matchId, r.player_id>>

RowsWithKey(rows, k) == {i \in DOMAIN rows : KeyOf(rows[i]) = k}

UniqueKeys(rows) == \A i, j \in DOMAIN rows : KeyOf(rows[i]) = KeyOf(rows[j]) => i = j

\* the last row of rows that has key k
LastWithKey(rows, k) ==
  rows[CHOOSE i \in RowsWithKey(rows, k) : \A j \in RowsWithKey(rows, k) : j <= i]

\* this instance merged its matches into a snapshot that existed
MergedIntoExisting ==
  /\ pc = "updated"
  /\ calls = 1
  /\ matches # <<>>
  /\ filePre.exists

\* C1: the persisted snapshot holds at most one row per (matchId, player_id)
\* pair, after the run that creates it and after every run that merges into it.
C1_AtMostOneRowPerKey == UniqueKeys(Persisted)

\* C2: after a merge into an existing snapshot every incoming key has exactly
\* one persisted row, and that row carries the incoming values; an incoming
\* key that was not in the snapshot has its row added.
C2_IncomingRowReplaces ==
  MergedIntoExisting =>
    \A i \in DOMAIN Incoming :
      LET k == KeyOf(Incoming[i])
      IN /\ Cardinality(RowsWithKey(Persisted, k)) = 1
         /\ \A j \in RowsWithKey(Persisted, k) : Persisted[j] = LastWithKey(Incoming, k)

\* C10: after a merging run every match id of the run is the match id of some
\* snapshot row, so the same input detects nothing new in the next run.
C10_MergedRunIsKnown ==
  (pc = "updated" /\ calls = 1) =>
    \A i \in DOMAIN matches :
      \E j \in DOMAIN Persisted : Persisted[j].matchId = matches[i].match_id

\* C3: update_most_recent_matches applied twice in succession with the same
\* matches leaves the rows that applying it once left.
C3_MergeIdempotent == calls = 2 => file = fileOnce

\* a is b with some rows left out, the others in b's order
RECURSIVE IsSubseq(_, _)
IsSubseq(a, b) ==
  IF a = <<>> THEN TRUE
  ELSE IF b = <<>> THEN FALSE
  ELSE IF Head(a) = Head(b) THEN IsSubseq(Tail(a), Tail(b))
  ELSE IsSubseq(a, Tail(b))

\* the indices of rows whose key no later row has
LastOfKey(rows) ==
  {i \in DOMAIN rows : \A j \in DOMAIN rows : KeyOf(rows[j]) = KeyOf(rows[i]) => j <= i}

\* some match id of the run is the matchId cell of no persisted row of f
SomeIdUnknownIn(f) ==
  \E i \in DOMAIN matches :
    \A j \in DOMAIN f.rows : f.rows[j].matchId # matches[i].match_id

\* C4: for a non-empty match list check_for_new_matches reports new matches
\* exactly when no snapshot is persisted or some match id of the run is the
\* matchId of no persisted row; new_matches_detected is set to the same value.
C4_DetectionIsSetDifference ==
  (pc = "checked" /\ matches # <<>>) =>
    /\ has_new_matches = (~file.exists \/ SomeIdUnknownIn(file))
    /\ new_matches_detected = has_new_matches

\* C4 witness: a snapshot whose ids read back as integers, all ids of the run
\* known, nothing reported
C4_Witness ==
  /\ pc = "checked"
  /\ matches # <<>>
  /\ file.exists
  /\ \E j \in DOMAIN file.rows : IsIntText(file.rows[j].matchId)
  /\ \A j \in DOMAIN file.rows : IsIntText(file.rows[j].matchId)
  /\ ~has_new_matches

\* C5: the snapshot is written only when new matches were detected: while
\* detection has not reported new matches (no new id, or an empty match list)
\* the file is the file the run started with.
C5_WrittenOnlyWhenNew == ~has_new_matches => file = filePre

\* C5 witness: a finished run over known matches whose rows differ from the
\* persisted ones
C5_Witness ==
  /\ pc = "done"
  /\ ~has_new_matches
  /\ matches # <<>>
  /\ file.exists
  /\ \E i \in DOMAIN Incoming : \A j \in DOMAIN Persisted : Persisted[j] # Incoming[i]

\* the players of the clubs before club c
RECURSIVE PlayersBefore(_, _)
PlayersBefore(pbc, c) ==
  IF c = 1 THEN 0 ELSE Len(pbc[c - 1].players) + PlayersBefore(pbc, c - 1)

\* C7: at the end of a run the most recent match is None for an empty match
\* list; otherwise it is the first match, its players listed club after club
\* in player order, and is_new tells whether the run started without a
\* snapshot or with a match id the snapshot did not have.
C7_MostRecentIsFirst ==
  pc = "done" =>
    IF matches = <<>> THEN ~most_recent_match.some
    ELSE LET m == matches[1]
             pbc == m.players_by_club
         IN /\ most_recent_match.some
            /\ most_recent_match.match_id = m.match_id
            /\ most_recent_match.timestamp = m.timestamp
            /\ most_recent_match.time_ago = m.time_ago
            /\ Len(most_recent_match.players) = PlayersBefore(pbc, Len(pbc) + 1)
            /\ \A c \in DOMAIN pbc : \A j \in DOMAIN pbc[c].players :
                 most_recent_match.players[PlayersBefore(pbc, c) + j] = pbc[c].players[j]
            /\ most_recent_match.is_new = (~filePre.exists \/ SomeIdUnknownIn(filePre))

\* C7 witness: a run of two matches, the first with two clubs, not new
C7_Witness ==
  /\ pc = "done"
  /\ Len(matches) = 2
  /\ matches[1].match_id # matches[2].match_id
  /\ Len(matches[1].players_by_club) = 2
  /\ most_recent_match.some
  /\ ~most_recent_match.is_new

\* C9 as stated: after a merge the rows that existed keep their positions, a
\* replaced row staying where the row it replaced was.
C9_ReplacedRowKeepsPosition ==
  (MergedIntoExisting /\ UniqueKeys(filePre.rows) /\ UniqueKeys(Persisted)) =>
    \A i \in DOMAIN filePre.rows :
      /\ i \in DOMAIN Persisted
      /\ KeyOf(Persisted[i]) = KeyOf(filePre.rows[i])

\* C9 amended: after a merge the persisted rows are retained old rows in
\* their old order, followed by the incoming rows (the last row of each key)
\* in iteration order; the last old row of a key that is not incoming is
\* retained.
C9_IncomingRowsComeLast ==
  MergedIntoExisting =>
    \E k \in 0..Len(Persisted) :
      LET head == SubSeq(Persisted, 1, k)
          tail == SubSeq(Persisted, k + 1, Len(Persisted))
      IN /\ IsSubseq(head, filePre.rows)
         /\ IsSubseq(tail, Incoming)
         /\ Len(tail) = Cardinality(LastOfKey(Incoming))
         /\ \A i \in LastOfKey(Incoming) : \E j \in DOMAIN tail : tail[j] = Incoming[i]
         /\ \A i \in DOMAIN filePre.rows :
              (\A j \in DOMAIN Incoming : KeyOf(Incoming[j]) # KeyOf(filePre.rows[i]))
                => \E j \in DOMAIN head : head[j] = LastWithKey(filePre.rows, KeyOf(filePre.rows[i]))

\* C9 witness: a row was replaced and now stands behind a retained row that
\* it stood in front of
C9_Witness ==
  /\ MergedIntoExisting
  /\ UniqueKeys(filePre.rows)
  /\ UniqueKeys(Persisted)
  /\ \E i, j \in DOMAIN filePre.rows : \E a, b \in DOMAIN Persisted :
       /\ i < j
       /\ b < a
       /\ KeyOf(Persisted[a]) = KeyOf(filePre.rows[i])
       /\ Persisted[a] # filePre.rows[i]
       /\ Persisted[b] = filePre.rows[j]

-----------------------------------------------------------------------------
(* Row normalisation on its own: one parser instance, parse_csv applied to a
   batch in which one row carries any of the cells below *)

StatVals == {None, PyInt(3), PyFloat(27), PyStr("4"), PyStr("2.5"), PyStr("x")}

StatMaps == {NoStats} \cup {OneStat(k, v) : k \in StatKeys, v \in StatVals}

ParseCells ==
  {SyntaxCell, ListCell, DictCell(<<>>), DictCell(<<BadClubEntry("c1")>>),
   DictCell(<<ClubEntry("c1", <<>>)>>)}
    \cup {DictCell(<<ClubEntry("c1", <<PlayerEntry("7", st)>>)>>) : st \in StatMaps}
    \cup {DictCell(<<ClubEntry("c1", <<PlayerEntry("7", NoStats)>>),
                     ClubEntry("c2", <<PlayerEntry("p9", st), PlayerEntry("p8", NoStats)>>)>>)
            : st \in StatMaps}

PlainRows == {InputRow("1", SyntaxCell), InputRow("2", OnePlayer(3))}

InsertAt(q, i, r) == SubSeq(q, 1, i - 1) \o <<r>> \o SubSeq(q, i, Len(q))

ParseBatches ==
  UNION {{InsertAt(q, i, InputRow("m3", cell)) : i \in 1..(Len(q) + 1), cell \in ParseCells}
           : q \in SeqsUpTo(PlainRows, MaxRows - 1)}

InitParse ==
  /\ file = Absent
  /\ batch \in ParseBatches
  /\ matches = <<>>
  /\ new_matches_detected = FALSE
  /\ most_recent_match = NoMostRecent
  /\ has_new_matches = FALSE
  /\ pc = "new"
  /\ runs = 1
  /\ calls = 0
  /\ filePre = Absent
  /\ fileOnce = Absent

NextParse == ParseCsv

SpecParse == InitParse /\ [][NextParse]_vars

\* the PlayerStats field a key of the player's mapping is stored in
FieldOf ==
  [playername |-> "player_name", pos |-> "position", archetypeid |-> "archetype_id",
   rating |-> "rating", goals |-> "goals", assists |-> "assists", shots |-> "shots",
   passesmade |-> "passes_made", passattempts |-> "pass_attempts",
   tacklesmade |-> "tackles_made", tackleattempts |-> "tackle_attempts",
   saves |-> "saves", secondsPlayed |-> "seconds_played", SCORE |-> "score",
   wins |-> "wins", losses |-> "losses", redcards |-> "red_cards",
   userResult |-> "user_result"]

\* the declared default of a key
DefaultOf(k) ==
  IF k \in {"playername", "pos"} THEN PyStr("Unknown")
  ELSE IF k = "archetypeid" THEN PyStr("0")
  ELSE IF k = "rating" THEN PyFloat(0)
  ELSE PyInt(0)

\* value v can be coerced to the declared type of key k
Coercible(k, v) ==
  IF k \in StrKeys THEN TRUE
  ELSE IF k = "rating"
       THEN v.t \in {"int", "float"} \/ (v.t = "str" /\ (IsIntText(v.s) \/ IsFloatText(v.s)))
       ELSE v.t \in {"int", "float"} \/ (v.t = "str" /\ IsIntText(v.s))

\* v coerced to the declared type of key k
Coerced(k, v) ==
  IF k \in StrKeys THEN v
  ELSE IF k = "rating" THEN PyFloatOf(v)
  ELSE PyIntOf(v)

\* the player mappings of a cell, as <<club index, player index>>
PlayersOfCell(cell) ==
  UNION {{<<c, j>> : j \in DOMAIN cell.clubs[c].players} : c \in DOMAIN cell.clubs}

\* the row has a players cell that parses to a mapping of mappings
WellShaped(row) ==
  /\ row.players.kind = "dict"
  /\ \A c \in DOMAIN row.players.clubs : row.players.clubs[c].isMap

\* the row normalizes: its stat values can all be coerced
Normalizes(row) ==
  /\ WellShaped(row)
  /\ \A cj \in PlayersOfCell(row.players) :
       LET st == row.players.clubs[cj[1]].players[cj[2]].stats
       IN \A k \in DOMAIN st : Coercible(k, st[k])

\* the row normalizes when a null stat value is taken for an absent one
NormalizesWithNulls(row) ==
  /\ WellShaped(row)
  /\ \A cj \in PlayersOfCell(row.players) :
       LET st == row.players.clubs[cj[1]].players[cj[2]].stats
       IN \A k \in DOMAIN st : st[k] = None \/ Coercible(k, st[k])

\* the input row the k-th row satisfying Good comes from
NthRow(Good(_), k) ==
  CHOOSE i \in DOMAIN batch :
    /\ Good(batch[i])
    /\ Cardinality({j \in 1..i : Good(batch[j])}) = k

\* C6: parse_csv yields exactly the matches of the rows that normalize, in
\* row order; a row that raises (players cell not parsed, a stat value not
\* coerced) contributes nothing and the rows after it are still processed.
C6_FailingRowsAreSkipped ==
  pc = "parsed" =>
    /\ Len(matches) = Cardinality({i \in DOMAIN batch : Normalizes(batch[i])})
    /\ \A k \in DOMAIN matches :
         LET row == batch[NthRow(Normalizes, k)]
             pbc == matches[k].players_by_club
         IN /\ matches[k].match_id = row.matchId
            /\ matches[k].timestamp = row.timestamp
            /\ Len(pbc) = Len(row.players.clubs)
            /\ \A c \in DOMAIN pbc :
                 /\ pbc[c].club_id = row.players.clubs[c].club_id
                 /\ Len(pbc[c].players) = Len(row.players.clubs[c].players)

\* C6 witness: a row fails on a stat value of its second club, after its
\* first club was built, and a later row yields its match
C6_Witness ==
  /\ pc = "parsed"
  /\ \E i, j \in DOMAIN batch :
       /\ i < j
       /\ WellShaped(batch[i])
       /\ Len(batch[i].players.clubs) = 2
       /\ ~Normalizes(batch[i])
       /\ Normalizes(batch[j])
       /\ Len(matches) = 1
       /\ matches[1].match_id = batch[j].matchId

\* C8: a stat field that is absent or null in the player's mapping never
\* makes the row fail and leaves the declared default in the PlayerStats; a
\* field that is present holds the input value coerced to the declared type.
C8_AbsentOrNullDefaults ==
  pc = "parsed" =>
    /\ Len(matches) = Cardinality({i \in DOMAIN batch : NormalizesWithNulls(batch[i])})
    /\ Len(matches) = Cardinality({i \in DOMAIN batch : NormalizesWithNulls(batch[i])}) =>
         \A m \in DOMAIN matches :
           LET row == batch[NthRow(NormalizesWithNulls, m)]
           IN \A cj \in PlayersOfCell(row.players) : \A k \in StatKeys :
                LET st == row.players.clubs[cj[1]].players[cj[2]].stats
                    got == matches[m].players_by_club[cj[1]].players[cj[2]][FieldOf[k]]
                IN got = IF k \notin DOMAIN st \/ st[k] = None
                         THEN DefaultOf(k)
                         ELSE Coerced(k, st[k])

====
